---- MODULE Spec2Model ----
(***************************************************************************)
(* Model of the configuration backup utility: uploadutils.make_archives    *)
(* (the archiver), uploadutils.update_archives (the retention manager)     *)
(* and the pipeline backup.upload that runs one after the other and then   *)
(* removes the temporary folder.                                           *)
(*                                                                         *)
(* File names are sequences of their dot-separated components              *)
(* ("0.tar.gz" is <<"0","tar","gz">>, ".DS_Store" is <<"","DS_Store">>);    *)
(* names of remote directories and the destination are sequences of        *)
(* characters, so that suffix tests, with_suffix, int(), str() and the     *)
(* parse of the listing are computed the way the code computes them.       *)
(***************************************************************************)
EXTENDS Integers, Sequences, FiniteSets, TLC

\* ------------------------------------------------------------------ bounds

\* most children the source folder holds
MaxChildren == 3
\* largest du -sk figure of one child
MaxSize == 2
\* largest threshold, in the unit of du -sk
MaxThreshold == 2
\* most directories the destination holds before the run
MaxGens == 3
\* largest number_to_keep
MaxKeep == 3

\* ------------------------------------------------------- program constants

\* du() multiplies the du -sk figure by 1024
KiB == 1024

\* ------------------------------------------------------------ path helpers

\* pathlib's PurePath.suffix on a name given by its dot-separated components:
\* the text from the last dot on, when that dot is neither the first nor the
\* last character of the name; here without the dot, "" when there is none
Suffix(name) ==
    IF /\ Len(name) >= 2
       /\ name[Len(name)] # ""
       /\ (Len(name) > 2 \/ name[1] # "")
    THEN name[Len(name)]
    ELSE ""

\* pathlib's PurePath.with_suffix: the last suffix replaced, or one added
WithSuffix(name, suffix) ==
    IF Suffix(name) = ""
    THEN Append(name, suffix)
    ELSE [name EXCEPT ![Len(name)] = suffix]

DS_Store == <<"", "DS_Store">>

\* the name f'{folder_index}.tar.gz' or f'{folder_index}.tar'
TarFileName(index, compressed) ==
    IF compressed
    THEN <<ToString(index), "tar", "gz">>
    ELSE <<ToString(index), "tar">>

\* the manifest's name, tar_file.with_suffix('.txt')
ManifestName(index, compressed) ==
    WithSuffix(TarFileName(index, compressed), "txt")

\* the safety check with the is_file() test left out
IsPreviousBackupFile_AnyKind(e) ==
    \/ Suffix(e.name) \in {"txt", "tar", "gz"}
    \/ e.name = DS_Store

\* one iteration of the safety loop over temporary_folder.iterdir(): TRUE when
\* the entry is let through (continue), FALSE when it raises ValueError
IsPreviousBackupFile(e) ==
    /\ e.kind = "file"
    /\ \/ Suffix(e.name) \in {"txt", "tar", "gz"}
       \/ e.name = DS_Store

\* ---------------------------------------------------------- text helpers

Digits == <<"0", "1", "2", "3", "4", "5", "6", "7", "8", "9">>

DigitValue(c) == (CHOOSE i \in 1..10 : Digits[i] = c) - 1

IsDigit(c) == \E i \in 1..10 : Digits[i] = c

\* whether int(word) returns (no ValueError): a non-empty run of digits
IsInt(word) == Len(word) > 0 /\ \A i \in 1..Len(word) : IsDigit(word[i])

RECURSIVE ParseInt(_)
\* int(word) for a word of digits
ParseInt(word) ==
    IF Len(word) = 0 THEN 0
    ELSE 10 * ParseInt(SubSeq(word, 1, Len(word) - 1)) + DigitValue(word[Len(word)])

RECURSIVE IntToStr(_)
\* str(n) for n >= 0
IntToStr(n) ==
    IF n < 10 THEN <<Digits[n + 1]>>
    ELSE IntToStr(n \div 10) \o <<Digits[(n % 10) + 1]>>

\* str.endswith('/')
EndsWithSlash(s) == Len(s) > 0 /\ s[Len(s)] = "/"

\* one line of `rclone lsd`: size, date, time and count columns, then the name
LsdLine(name) ==
    <<" ", "-", "1", " ", "d", " ", "t", " ", "-", "1", " ">> \o name

RECURSIVE LastField(_)
\* line.split()[-1]: the last whitespace-separated word of the line
LastField(line) ==
    IF Len(line) = 0 THEN <<>>
    ELSE IF line[Len(line)] = " " THEN LastField(SubSeq(line, 1, Len(line) - 1))
    ELSE LET spaces == {i \in 1..Len(line) : line[i] = " "}
             from == IF spaces = {} THEN 1
                     ELSE (CHOOSE i \in spaces : \A j \in spaces : j <= i) + 1
         IN  SubSeq(line, from, Len(line))

RECURSIVE SortAsc(_)
\* list.sort() on a list of integers
SortAsc(s) ==
    IF Len(s) <= 1 THEN s
    ELSE LET m == CHOOSE i \in 1..Len(s) : \A j \in 1..Len(s) : s[i] <= s[j]
             rest == SubSeq(s, 1, m - 1) \o SubSeq(s, m + 1, Len(s))
         IN  <<s[m]>> \o SortAsc(rest)

\* the Python slice s[:stop]
SliceTo(s, stop) ==
    LET n == Len(s)
        e == IF stop < 0 THEN (IF n + stop < 0 THEN 0 ELSE n + stop)
             ELSE (IF stop > n THEN n ELSE stop)
    IN  SubSeq(s, 1, e)

\* folders[:-(number_to_keep - 1)]
FoldersToDelete(sorted, keep) == SliceTo(sorted, -(keep - 1))

Range(s) == {s[i] : i \in 1..Len(s)}

RECURSIVE SetToSeq(_)
\* the directories of a listing, one after the other
SetToSeq(S) ==
    IF S = {} THEN <<>>
    ELSE LET e == CHOOSE e \in S : TRUE
         IN  <<e>> \o SetToSeq(S \ {e})

\* a call that, like execute(), goes on whatever the exit status is
CheckOutput_IgnoreExit(rc, next) == next

\* subprocess.check_output raises CalledProcessError on a non-zero exit: the
\* caller goes on to `next` only when the command exits with 0

CheckOutput(rc, next) == IF rc = 0 THEN next ELSE "failed"

\* execute() reads the command's output to its end and returns; it never
\* looks at the exit status, so the caller goes on whatever it is
Execute(rc, next) == next

\* du(path): the du -sk figure times 1024 (on Darwin)
du(e) == e.size * KiB

\* the comparison with >= in place of >
ExceedsThreshold_OrEqual(size, limit) == size >= limit

\* current_folder_size > folder_size_threshold_bytes

ExceedsThreshold(size, limit) == size > limit

\* ------------------------------------------------------------------- state

VARIABLES
    pc,            \* the statement the pipeline backup.upload is at
    err,           \* the exception that ended the run, "" when none
    platformName,  \* platform.system()
    threshold,     \* folder_size_threshold_bytes / 1024
    compress,      \* make_archives' compress
    absPaths,      \* make_archives' use_absolute_paths_in_archive
    tempLoc,       \* where temporary_folder lies: "disjoint" from source,
                   \* "equal" to source, or "inside" source (a child of it)
    srcDir,        \* the entries of the source folder, in listing order
    tmpDir,        \* the entries of temporary_folder (when it is not source)
    tmpExists,     \* whether temporary_folder exists
    checked,       \* names the safety loop has let through
    listing,       \* what the iteration over source.iterdir() has yet to yield
    curIndex,      \* current_folder_index
    curSize,       \* current_folder_size
    curDirs,       \* current_folder_directories
    segments,      \* the _create_archive calls that returned, in order
    tarFailed,     \* whether a tar command has exited with a non-zero status
    dest,          \* base_destination_folder
    numberToKeep,  \* number_to_keep
    now,           \* int(time.time()) at the upload
    remote,        \* names of the directories at the destination
    folders,       \* update_archives' folders
    toDelete,      \* what is left of folders_to_delete
    remoteLog,     \* the rclone commands run so far, with their exit status
    src0,          \* srcDir when the run started
    tmp0,          \* the entries of temporary_folder when the run started
    remote0        \* remote when the run started

vars == <<pc, err, platformName, threshold, compress, absPaths, tempLoc, srcDir,
          tmpDir, tmpExists, checked, listing, curIndex, curSize, curDirs,
          segments, tarFailed, dest, numberToKeep, now, remote, folders, toDelete,
          remoteLog, src0, tmp0, remote0>>

inputs == <<platformName, threshold, compress, absPaths, tempLoc, dest,
            numberToKeep, now, src0, tmp0, remote0>>

archiver == <<checked, listing, curIndex, curSize, curDirs, segments, tarFailed>>

files == <<srcDir, tmpDir, tmpExists>>

retention == <<remote, folders, toDelete, remoteLog>>

\* the entries temporary_folder.iterdir() yields
TempEntries == IF tempLoc = "equal" THEN Range(srcDir) ELSE tmpDir

\* the entry of source that is temporary_folder, when it lies inside source
TempInSource == [name |-> <<"temp">>, kind |-> "dir", size |-> 0, data |-> <<>>]

\* folder_size_threshold_bytes
ThresholdBytes == threshold * KiB

\* str(folder_name): the child's path when absolute paths are asked for, else
\* its name
FolderName(child) ==
    [parent |-> IF absPaths THEN "source" ELSE "", name |-> child.name]

\* a regular file written into temporary_folder
NewFile(name, data) == [name |-> name, kind |-> "file", size |-> 0, data |-> data]

\* `dir` (a sequence of entries) after a file is written: it replaces an
\* entry of the same name or is listed after the others
WriteSeq(dir, f) ==
    IF \E i \in 1..Len(dir) : dir[i].name = f.name
    THEN [i \in 1..Len(dir) |-> IF dir[i].name = f.name THEN f ELSE dir[i]]
    ELSE Append(dir, f)

WriteSet(dir, f) == {e \in dir : e.name # f.name} \cup {f}

\* ------------------------------------------------------------ make_archives

Fail(e) == pc' = "failed" /\ err' = e

\* lines 32-39: the folder is created when missing, and only then is it
\* checked not to lie under source
MakeArchivesEnter ==
    /\ pc = "make_archives"
    /\ tmpExists' = TRUE
    /\ srcDir' = IF tempLoc = "inside" /\ ~tmpExists
                 THEN Append(srcDir, TempInSource)
                 ELSE srcDir
    /\ IF tempLoc = "inside"
       THEN Fail("ValueError: subdirectory of source")
       ELSE pc' = "safety" /\ err' = err
    /\ UNCHANGED <<inputs, archiver, retention, tmpDir>>

\* lines 42-49, one iteration: the entries come in any order
CheckEntry ==
    /\ pc = "safety"
    /\ \E e \in TempEntries :
        /\ e.name \notin checked
        /\ IF IsPreviousBackupFile(e)
           THEN /\ checked' = checked \cup {e.name}
                /\ UNCHANGED <<pc, err>>
           ELSE /\ Fail("ValueError: not a previous backup file")
                /\ UNCHANGED checked
    /\ UNCHANGED <<inputs, files, retention, listing, curIndex, curSize,
                   curDirs, segments, tarFailed>>

\* lines 52-53 and 81-85: the loop ended without raising; temporary_folder is
\* removed and created again, the counters are set and source is listed
WipeTemporaryFolder ==
    /\ pc = "safety"
    /\ \A e \in TempEntries : e.name \in checked
    /\ srcDir' = IF tempLoc = "equal" THEN <<>> ELSE srcDir
    /\ tmpDir' = {}
    /\ listing' = srcDir'
    /\ curIndex' = 0
    /\ curSize' = 0
    /\ curDirs' = <<>>
    /\ pc' = "loop"
    /\ UNCHANGED <<inputs, retention, err, tmpExists, checked, segments,
                   tarFailed>>

\* lines 85-94: the next child is measured and added to the current segment
AddChild ==
    /\ pc = "loop"
    /\ listing # <<>>
    /\ LET child == Head(listing) IN
       IF platformName # "Darwin"
       THEN /\ Fail("NotImplementedError")
            /\ UNCHANGED <<listing, curSize, curDirs>>
       ELSE /\ listing' = Tail(listing)
            /\ curSize' = curSize + du(child)
            /\ curDirs' = Append(curDirs, FolderName(child))
            /\ pc' = IF ExceedsThreshold(curSize', ThresholdBytes)
                     THEN "flush"
                     ELSE "loop"
            /\ err' = err
    /\ UNCHANGED <<inputs, files, retention, checked, curIndex, segments,
                   tarFailed>>

\* lines 102-103: the loop over the children is over
LoopEnd ==
    /\ pc = "loop"
    /\ listing = <<>>
    /\ pc' = IF curDirs # <<>> THEN "last" ELSE "update_archives"
    /\ UNCHANGED <<inputs, files, archiver, retention, err>>

\* _create_archive (lines 55-77) and, in the loop, lines 97-100. tar exits
\* with rc; when it fails it may leave what it wrote of the archive behind
CreateArchive ==
    /\ pc \in {"flush", "last"}
    /\ \E rc \in {0, 1}, left \in BOOLEAN :
        LET next == CheckOutput(rc, IF pc = "flush" THEN "loop" ELSE "update_archives")
            tar == NewFile(TarFileName(curIndex, compress), curDirs)
            txt == NewFile(ManifestName(curIndex, compress), curDirs)
            written == IF next # "failed" THEN <<tar, txt>>
                       ELSE IF rc = 0 \/ left THEN <<tar>>
                       ELSE <<>>
        IN  /\ pc' = next
            /\ tarFailed' = (tarFailed \/ rc # 0)
            /\ err' = IF next = "failed" THEN "CalledProcessError: tar" ELSE err
            /\ srcDir' = IF tempLoc # "equal" THEN srcDir
                         ELSE IF Len(written) = 2
                              THEN WriteSeq(WriteSeq(srcDir, tar), txt)
                              ELSE IF Len(written) = 1 THEN WriteSeq(srcDir, tar)
                              ELSE srcDir
            /\ tmpDir' = IF tempLoc = "equal" THEN tmpDir
                         ELSE IF Len(written) = 2
                              THEN WriteSet(WriteSet(tmpDir, tar), txt)
                              ELSE IF Len(written) = 1 THEN WriteSet(tmpDir, tar)
                              ELSE tmpDir
            /\ segments' = IF next = "failed" THEN segments
                           ELSE Append(segments, [index |-> curIndex,
                                                  size |-> curSize,
                                                  members |-> curDirs])
            /\ IF next = "loop"
               THEN curIndex' = curIndex + 1 /\ curSize' = 0 /\ curDirs' = <<>>
               ELSE UNCHANGED <<curIndex, curSize, curDirs>>
    /\ UNCHANGED <<inputs, retention, tmpExists, checked, listing>>

\* ---------------------------------------------------------- update_archives

\* lines 119-120
CheckDestination ==
    /\ pc = "update_archives"
    /\ IF EndsWithSlash(dest)
       THEN pc' = "lsd" /\ err' = err
       ELSE Fail("Exception: must end with a slash")
    /\ UNCHANGED <<inputs, files, archiver, retention>>

\* lines 122-124: rclone lsd, and the last word of each line of its output
ListDestination ==
    /\ pc = "lsd"
    /\ \E rc \in {0, 1} :
        LET names == SetToSeq(remote) IN
        /\ pc' = CheckOutput(rc, "parse")
        /\ err' = IF pc' = "failed" THEN "CalledProcessError: rclone lsd" ELSE err
        /\ folders' = IF rc = 0
                      THEN [i \in 1..Len(names) |-> LastField(LsdLine(names[i]))]
                      ELSE <<>>
        /\ remoteLog' = Append(remoteLog, [op |-> "lsd", arg |-> <<>>, rc |-> rc])
    /\ UNCHANGED <<inputs, files, archiver, remote, toDelete>>

\* lines 126-129
ParseFolders ==
    /\ pc = "parse"
    /\ IF \A i \in 1..Len(folders) : IsInt(folders[i])
       THEN /\ folders' = [i \in 1..Len(folders) |-> ParseInt(folders[i])]
            /\ pc' = "select"
            /\ err' = err
       ELSE /\ Fail("Exception: must be integers")
            /\ UNCHANGED folders
    /\ UNCHANGED <<inputs, files, archiver, remote, toDelete, remoteLog>>

\* lines 131-134
SelectFoldersToDelete ==
    /\ pc = "select"
    /\ IF Len(folders) > numberToKeep - 1
       THEN /\ folders' = SortAsc(folders)
            /\ toDelete' = FoldersToDelete(folders', numberToKeep)
       ELSE /\ toDelete' = <<>>
            /\ UNCHANGED folders
    /\ pc' = IF toDelete' # <<>> THEN "purge" ELSE "upload"
    /\ UNCHANGED <<inputs, files, archiver, remote, remoteLog, err>>

\* lines 135-137, one iteration: rclone purge of base + str(folder) + '/'. It
\* exits with 0 only when that directory was there and is now removed
PurgeFolder ==
    /\ pc = "purge"
    /\ \E rc \in {0, 1} :
        LET target == IntToStr(Head(toDelete)) IN
        /\ rc = 0 => target \in remote
        /\ remote' = IF rc = 0 THEN remote \ {target} ELSE remote
        /\ remoteLog' = Append(remoteLog, [op |-> "purge", arg |-> target, rc |-> rc])
        /\ toDelete' = Tail(toDelete)
        /\ pc' = Execute(rc, IF toDelete' # <<>> THEN "purge" ELSE "upload")
    /\ UNCHANGED <<inputs, files, archiver, folders, err>>

\* line 139 and upload_archives: rclone copy to base + str(int(time.time()))
\* + '/'. A copy that fails may have created the directory already
UploadArchives ==
    /\ pc = "upload"
    /\ \E rc \in {0, 1}, partial \in BOOLEAN :
        LET target == IntToStr(now) IN
        /\ remote' = IF rc = 0 \/ partial THEN remote \cup {target} ELSE remote
        /\ remoteLog' = Append(remoteLog, [op |-> "copy", arg |-> target, rc |-> rc])
        /\ pc' = Execute(rc, "rmtree")
    /\ UNCHANGED <<inputs, files, archiver, folders, toDelete, err>>

\* ------------------------------------------------------------ backup.upload

\* line 68: shutil.rmtree(temporary_folder)
RemoveTemporaryFolder ==
    /\ pc = "rmtree"
    /\ tmpExists' = FALSE
    /\ tmpDir' = {}
    /\ srcDir' = IF tempLoc = "equal" THEN <<>> ELSE srcDir
    /\ pc' = "done"
    /\ UNCHANGED <<inputs, archiver, retention, err>>

Next ==
    \/ MakeArchivesEnter
    \/ CheckEntry
    \/ WipeTemporaryFolder
    \/ AddChild
    \/ LoopEnd
    \/ CreateArchive
    \/ CheckDestination
    \/ ListDestination
    \/ ParseFolders
    \/ SelectFoldersToDelete
    \/ PurgeFolder
    \/ UploadArchives
    \/ RemoveTemporaryFolder

\* ------------------------------------------------------------ initial states

\* the i-th child of source: a folder d<i> of the given du -sk figure
Child(i, size) ==
    [name |-> <<"d" \o ToString(i)>>, kind |-> "dir", size |-> size, data |-> <<>>]

\* source folders of n folders, of every combination of sizes
SizedChildren(n) ==
    {[i \in 1..n |-> Child(i, sz[i])] : sz \in [1..n -> 0..MaxSize]}

\* the i-th child of source as a folder (1), a text file (2) or a folder whose
\* name ends like an archive's (3)
MixedChild(i, k) ==
    IF k = 1 THEN Child(i, 1)
    ELSE IF k = 2
    THEN [name |-> <<"f" \o ToString(i), "txt">>, kind |-> "file", size |-> 1,
          data |-> <<>>]
    ELSE [name |-> <<"g" \o ToString(i), "tar">>, kind |-> "dir", size |-> 1,
          data |-> <<>>]

MixedChildren(n) ==
    {[i \in 1..n |-> MixedChild(i, k[i])] : k \in [1..n -> 1..3]}

OldFile(name) == [name |-> name, kind |-> "file", size |-> 0, data |-> <<>>]

OldDir(name) == [name |-> name, kind |-> "dir", size |-> 0, data |-> <<>>]

\* what temporary_folder may hold before the run: leftovers of a previous
\* run, the junk file, an unrelated file, a folder, a folder named like a
\* manifest
TempUniverse ==
    { OldFile(<<"0", "txt">>), OldFile(<<"0", "tar", "gz">>), OldFile(DS_Store),
      OldFile(<<"notes", "md">>), OldDir(<<"old">>), OldDir(<<"d", "txt">>) }

\* names of directories at the destination: timestamps, one with a leading
\* zero, one of two digits, a word, and two names with a space in them
RemoteNames ==
    { <<"1">>, <<"2">>, <<"3">>, <<"4">>, <<"0", "2">>, <<"1", "0">>,
      <<"x">>, <<"x", " ", "3">>, <<"3", " ", "x">> }

DestWithSlash == <<"r", ":", "b", "/">>

DestWithoutSlash == <<"r", ":", "b">>

\* the state in which backup.upload is called, its arguments and the two
\* folders and the destination drawn from the given sets
InitOf(sources, temps, locs, thresholds, flags, platforms, dests, keeps, times, remotes) ==
    /\ pc = "make_archives"
    /\ err = ""
    /\ platformName \in platforms
    /\ threshold \in thresholds
    /\ compress \in flags
    /\ absPaths \in flags
    /\ tempLoc \in locs
    /\ \E children \in sources, t \in temps, exists \in BOOLEAN :
        /\ t # {} => exists
        /\ tempLoc = "equal" => t = {} /\ exists
        /\ tmpExists = exists
        /\ tmpDir = t
        /\ srcDir = IF tempLoc = "inside" /\ exists
                    THEN Append(children, TempInSource)
                    ELSE children
    /\ checked = {}
    /\ listing = <<>>
    /\ curIndex = 0
    /\ curSize = 0
    /\ curDirs = <<>>
    /\ segments = <<>>
    /\ tarFailed = FALSE
    /\ dest \in dests
    /\ numberToKeep \in keeps
    /\ now \in times
    /\ remote \in remotes
    /\ folders = <<>>
    /\ toDelete = <<>>
    /\ remoteLog = <<>>
    /\ src0 = srcDir
    /\ tmp0 = TempEntries
    /\ remote0 = remote

\* the archiver's inputs varied: every source of up to MaxChildren folders of
\* sizes 0..MaxSize, every threshold 0..MaxThreshold, both platforms and flags
Init ==
    InitOf(UNION {SizedChildren(n) : n \in 0..MaxChildren},
           {{}, {OldFile(<<"0", "txt">>)}},
           {"disjoint"},
           0..MaxThreshold,
           BOOLEAN,
           {"Darwin", "Linux"},
           {DestWithSlash},
           {2},
           {12},
           {{<<"1">>, <<"2">>}})

Spec == Init /\ [][Next]_vars

\* the temporary folder varied: where it lies and what it holds
InitTemp ==
    InitOf(UNION {MixedChildren(n) : n \in 0..(MaxChildren - 1)},
           SUBSET TempUniverse,
           {"disjoint", "equal", "inside"},
           {1},
           BOOLEAN,
           {"Darwin"},
           {DestWithSlash},
           {2},
           {12},
           {{<<"1">>, <<"2">>}})

SpecTemp == InitTemp /\ [][Next]_vars

\* the destination varied: up to MaxGens directories, number_to_keep in
\* 1..MaxKeep, the destination with and without its slash
InitRetention ==
    InitOf({<<Child(1, 1), Child(2, 1)>>},
           {{}, {OldFile(<<"0", "txt">>)}},
           {"disjoint"},
           {1},
           {FALSE},
           {"Darwin"},
           {DestWithSlash, DestWithoutSlash},
           1..MaxKeep,
           {3, 12},
           {S \in SUBSET RemoteNames : Cardinality(S) <= MaxGens})

SpecRetention == InitRetention /\ [][Next]_vars

\* ------------------------------------------------------------------ claims

\* where the pipeline is while make_archives runs
InMakeArchives == pc \in {"make_archives", "safety", "loop", "flush", "last"}

\* make_archives has just returned normally
MakeArchivesReturned == pc = "update_archives"

RECURSIVE AllMembers(_)
\* the member lists of the given segments, one after the other
AllMembers(segs) ==
    IF segs = <<>> THEN <<>>
    ELSE Head(segs).members \o AllMembers(Tail(segs))

RECURSIVE SumSizes(_)
\* the bytes of the named children of source, by their du -sk figures
SumSizes(names) ==
    IF names = <<>> THEN 0
    ELSE LET c == CHOOSE c \in Range(src0) : c.name = Head(names).name
         IN  c.size * 1024 + SumSizes(Tail(names))

PurgeAt(i) == remoteLog[i].op = "purge"

CopyAt(i) == remoteLog[i].op = "copy"

\* every rclone command run so far exited with 0
AllCommandsSucceeded == \A i \in 1..Len(remoteLog) : remoteLog[i].rc = 0

\* the name is the decimal form of an integer
IntegerNamed(name) == IsInt(name) /\ IntToStr(ParseInt(name)) = name

Max(a, b) == IF a >= b THEN a ELSE b

Min(a, b) == IF a <= b THEN a ELSE b

\* C1: after a successful update_archives with number_to_keep = N >= 1 on a
\* destination of M integer-named generations, none of them the current
\* timestamp, exactly the max(0, M - (N-1)) numerically smallest generations
\* are deleted, all of them before the upload, exactly one generation is
\* created, and min(M, N-1) + 1 <= N generations are left.
C1_Retention ==
    LET M == Cardinality(remote0)
        N == numberToKeep
        deleted == remote0 \ remote
        created == remote \ remote0
    IN  ( /\ pc = "done"
          /\ AllCommandsSucceeded
          /\ N >= 1
          /\ \A n \in remote0 : IntegerNamed(n)
          /\ IntToStr(now) \notin remote0 )
        => /\ Cardinality(deleted) = Max(0, M - (N - 1))
           /\ \A d \in deleted, k \in remote0 \ deleted : ParseInt(d) < ParseInt(k)
           /\ \A i, j \in 1..Len(remoteLog) : PurgeAt(i) /\ CopyAt(j) => i < j
           /\ created = {IntToStr(now)}
           /\ Cardinality(remote) = Min(M, N - 1) + 1
           /\ Cardinality(remote) <= N

\* C2: after a successful make_archives the member lists of the segments
\* together hold every child of source, nothing else, and nothing twice.
C2_Partition ==
    MakeArchivesReturned =>
        LET members == AllMembers(segments) IN
        /\ {members[i].name : i \in 1..Len(members)} = {c.name : c \in Range(src0)}
        /\ \A i, j \in 1..Len(members) : members[i] = members[j] => i = j

\* an entry the safety check is meant to accept: a regular file whose suffix
\* is .txt, .tar or .gz, or the file .DS_Store
KnownArtifact(e) ==
    /\ e.kind = "file"
    /\ \/ Suffix(e.name) = "txt"
       \/ Suffix(e.name) = "tar"
       \/ Suffix(e.name) = "gz"
       \/ e.name = <<"", "DS_Store">>

UnsafeTemp0 == \E e \in tmp0 : ~KnownArtifact(e)

\* C3: when temporary_folder starts with an entry that is no known artifact
\* (a regular file ending in .txt, .tar or .gz, or .DS_Store), make_archives
\* never gets past the safety check - it is still running it or has failed -
\* and every entry that was in temporary_folder is still there.
C3_SafetyCheck ==
    UnsafeTemp0 =>
        /\ pc \in {"make_archives", "safety", "failed"}
        /\ tmp0 \subseteq TempEntries

\* C3 witness: the check let some entries through, then met the offending
\* one and failed
C3_Witness ==
    /\ UnsafeTemp0
    /\ pc = "failed"
    /\ err = "ValueError: not a previous backup file"
    /\ checked # {}
    /\ Cardinality(tmp0) >= 3

\* C4: make_archives leaves source as it was, wherever temporary_folder lies:
\* once it has returned or failed, source holds the entries it held before,
\* and with temporary_folder inside source it has failed.
C4_SourceReadOnly ==
    (~InMakeArchives /\ pc \notin {"rmtree", "done"}) =>
        /\ srcDir = src0
        /\ tempLoc = "inside" => pc = "failed"

\* C5: generations are deleted in ascending order, and a delete that fails
\* ends update_archives: no command (delete or upload) is run after it and
\* the pipeline does not go on.
C5_DeleteFailureHalts ==
    /\ \A i, j \in 1..Len(remoteLog) :
        PurgeAt(i) /\ PurgeAt(j) /\ i < j
            => ParseInt(remoteLog[i].arg) <= ParseInt(remoteLog[j].arg)
    /\ \A i \in 1..Len(remoteLog) :
        PurgeAt(i) /\ remoteLog[i].rc # 0
            => i = Len(remoteLog) /\ pc \notin {"rmtree", "done"}

\* C6: temporary_folder is removed by backup.upload only after an upload
\* that succeeded.
C6_TempKeptOnUploadFailure ==
    pc = "done" =>
        \E i \in 1..Len(remoteLog) : CopyAt(i) /\ remoteLog[i].rc = 0

\* C7: when base_destination does not end with a slash, or a directory at the
\* destination has a name that is no integer, update_archives changes nothing
\* at the destination: no delete or upload command is run.
C7_FailsBeforeRemoteChange ==
    (~EndsWithSlash(dest) \/ \E n \in remote0 : ~IsInt(n)) =>
        /\ remote = remote0
        /\ \A i \in 1..Len(remoteLog) : ~PurgeAt(i) /\ ~CopyAt(i)
        /\ pc \notin {"rmtree", "done"}

\* C8: after a successful make_archives that emitted k segments,
\* temporary_folder holds exactly, for each i in 0..k-1, the archive <i>.tar
\* (<i>.tar.gz when compressed) and the manifest <i>.txt listing the members
\* of segment i.
C8_TempLayout ==
    MakeArchivesReturned =>
        LET k == Len(segments)
            ext == IF compress THEN <<"tar", "gz">> ELSE <<"tar">>
        IN  /\ \A i \in 1..k : segments[i].index = i - 1
            /\ {e.name : e \in TempEntries} =
                    {<<ToString(i)>> \o ext : i \in 0..(k - 1)}
               \cup {<<ToString(i), "txt">> : i \in 0..(k - 1)}
            /\ \A e \in TempEntries : e.kind = "file"
            /\ \A i \in 1..k : \A e \in TempEntries :
                   e.name = <<ToString(i - 1), "txt">> => e.data = segments[i].members

\* the segments written so far cover every child of source, in order, and
\* their files are in temporary_folder
EverySegmentWritten ==
    /\ AllMembers(segments) = [i \in 1..Len(src0) |-> FolderName(src0[i])]
    /\ tmpExists =>
        \A i \in 1..Len(segments) :
            \E e \in TempEntries : e.data = segments[i].members

\* C9: no rclone command runs before make_archives has written every segment,
\* and when a tar command fails the run ends there: nothing is listed,
\* deleted or uploaded and temporary_folder is not removed.
C9_ArchiveBeforeRemote ==
    /\ InMakeArchives => remoteLog = <<>> /\ remote = remote0
    /\ remoteLog # <<>> => EverySegmentWritten
    /\ tarFailed => /\ pc = "failed"
                    /\ remoteLog = <<>>
                    /\ remote = remote0
                    /\ tmpExists

\* C9 witness: one segment was written, the tar of the next one failed
C9_Witness ==
    /\ tarFailed
    /\ pc = "failed"
    /\ Len(segments) >= 1
    /\ remote0 # {}

\* C10: every segment is a non-empty run of source's children in listing
\* order, each following the one before; every segment but the last (and
\* every segment while the loop still runs) is larger than the threshold; and
\* every segment, less its last member, is at most the threshold.
C10_Segmentation ==
    LET members == AllMembers(segments) IN
    /\ Len(members) <= Len(src0)
    /\ \A i \in 1..Len(members) : members[i] = FolderName(src0[i])
    /\ \A i \in 1..Len(segments) :
        LET m == segments[i].members IN
        /\ m # <<>>
        /\ (i < Len(segments) \/ pc \in {"loop", "flush"})
              => SumSizes(m) > threshold * 1024
        /\ SumSizes(SubSeq(m, 1, Len(m) - 1)) <= threshold * 1024

\* C10 witness: a first segment of two children closed at the child that
\* crossed the threshold, and a last segment under the threshold
C10_Witness ==
    /\ MakeArchivesReturned
    /\ Len(segments) = 2
    /\ Len(segments[1].members) = 2
    /\ SumSizes(segments[2].members) <= threshold * 1024
    /\ threshold > 0
====
